---- MODULE Spec2Model ----
(***************************************************************************)
(* Charger telemetry bridge of the Electron app.                           *)
(*   main/main.js     (src/unnamed/part_001): window lifecycle, the        *)
(*                    get-charger-data handler, the start-monitoring        *)
(*                    handler, both sharing the module variable             *)
(*                    pythonProcess.                                        *)
(*   main/preload.js  (src/unnamed/part_000): the api exposed to the page.  *)
(*   renderer App.jsx (src/electron-app/renderer/src/App.jsx): the page:   *)
(*                    fetchData, handleChargerData, the status lookup.      *)
(* Subprocesses are numbered in spawn order; 0 stands for null.             *)
(***************************************************************************)
EXTENDS Integers, Sequences, FiniteSets, TLC

\* ---- bounds ------------------------------------------------------------
MaxProcs == 3
MaxWrites == 2

\* ---- text and decoding ---------------------------------------------------
\* A text is a sequence of characters.  A record body is abbreviated to one
\* character: "S" = "success":true,"devices":[...]   "F" = "success":false,
\* "message":...   "1","2" = "event":"charger_status_update","data":{"ip":..}
\* "3","4" = further status updates   "O" = "event":"other"
\* "N" = "event":"charger_status_update" with no data
\* Any other body (such as the a of {a}) is not JSON.
Bodies == {"S", "F", "1", "2", "3", "4", "O", "N"}

\* documents that are not objects, each abbreviated to one character:
\* null, a number, a string, an array
Atoms == {"null", "7", "'s'", "[]"}

IsWS(c) == c \in {"\n", " ", "\t", "\r"}

RECURSIVE StripLeft(_)
StripLeft(s) == IF s # <<>> /\ IsWS(Head(s)) THEN StripLeft(Tail(s)) ELSE s

RECURSIVE StripRight(_)
StripRight(s) ==
  IF s # <<>> /\ IsWS(s[Len(s)]) THEN StripRight(SubSeq(s, 1, Len(s) - 1)) ELSE s

ParseError == [ok |-> FALSE, body |-> ""]

\* JSON.parse: exactly one document, surrounded by optional whitespace.
JSONParse(s) ==
  LET t == StripRight(StripLeft(s)) IN
    IF Len(t) = 3 /\ t[1] = "{" /\ t[3] = "}" /\ t[2] \in Bodies
      THEN [ok |-> TRUE, body |-> t[2]]
    ELSE IF Len(t) = 1 /\ t[1] \in Atoms
      THEN [ok |-> TRUE, body |-> t[1]]
      ELSE ParseError

Line(b) == <<"{", b, "}", "\n">>

\* what the producer prints in default mode and in --monitor mode
OneShotLines == {Line("S"), Line("a")}
MonitorLines == {Line("1"), Line("2"), Line("a")}
StderrText == <<"boom">>

RECURSIVE Concat(_)
Concat(ss) == IF ss = <<>> THEN <<>> ELSE Head(ss) \o Concat(Tail(ss))

\* ---- exit codes ------------------------------------------------------------
\* close(code): code is null when the child was ended by a signal
NullCode == -1
ExitCodes == {0, 1}

\* ---- state -------------------------------------------------------------------
VARIABLES
  host,           \* "loading" | "running" | "quit"
  platform,       \* process.platform: "darwin" | "other"
  mainWindow,     \* TRUE iff mainWindow is a window (not null)
  pythonProcess,  \* 0 (null) or the index of the child it refers to
  procs,          \* every child spawned so far, in spawn order
  uncaught,       \* an 'error' event was emitted with no listener
  nWrites,        \* stdout and stderr writes made by the children so far
  chargers,       \* App: const [chargers, setChargers] = useState([])
  error,          \* App: const [error, setError] = useState(null)
  icons,          \* the iconInfo rendered for each charger
  pageError,      \* a handler of the page has thrown
  seen,           \* the ips of the status updates the page has applied
  again,          \* the ips an update was applied for when already seen
  replaced        \* fetchData has called setChargers

page == <<chargers, error, icons, pageError, seen, again, replaced>>

vars == <<host, platform, mainWindow, pythonProcess, procs, uncaught, nWrites,
          chargers, error, icons, pageError, seen, again, replaced>>

Pending == [kind |-> "pending", tag |-> "", code |-> 0, text |-> <<>>, body |-> ""]

\* reject(new Error(`Python script exited with code ${code}: ${errorData}`))
ExitFailure(code, errorData) ==
  [kind |-> "rejected", tag |-> "exit", code |-> code, text |-> errorData, body |-> ""]

\* reject(new Error(`Failed to parse Python script output: ${err.message}`))
ParseFailure ==
  [kind |-> "rejected", tag |-> "parse", code |-> 0, text |-> <<"SyntaxError">>, body |-> ""]

\* resolve(parsedData)
Resolved(v) ==
  [kind |-> "resolved", tag |-> "value", code |-> 0, text |-> <<>>, body |-> v.body]

\* spawn(...): the child object and the closure state of the handler that
\* spawned it.  status: "alive", "closed" ('close' emitted: exited and
\* stdio drained), "failed" (could not be started).
NewProc(mode, ok) ==
  [mode      |-> mode,
   status    |-> IF ok THEN "alive" ELSE "failed",
   killed    |-> FALSE,
   code      |-> 0,
   pipe      |-> <<>>,      \* stdout written, not yet read by the bridge
   written   |-> <<>>,      \* every stdout write of the child
   errWritten|-> <<>>,      \* every stderr write of the child
   data      |-> <<>>,      \* let data = ''
   errorData |-> <<>>,      \* let errorData = ''
   outcome   |-> Pending,   \* the promise of the call
   parses    |-> 0,         \* JSON.parse calls made for this child
   recv      |-> <<>>,      \* messages handed to the page's callback
   diag      |-> 0]         \* console.error calls made for this child

Procs == 1..Len(procs)

\* ---- the page: App.jsx ------------------------------------------------------
\* A string of the page is a sequence of characters.
Uppers == <<"A", "B", "C", "D", "E", "F", "G", "H", "I", "J", "K", "L", "M",
            "N", "O", "P", "Q", "R", "S", "T", "U", "V", "W", "X", "Y", "Z">>
Lowers == <<"a", "b", "c", "d", "e", "f", "g", "h", "i", "j", "k", "l", "m",
            "n", "o", "p", "q", "r", "s", "t", "u", "v", "w", "x", "y", "z">>

LowerChar(c) ==
  IF \E i \in DOMAIN Uppers : Uppers[i] = c
    THEN Lowers[CHOOSE i \in DOMAIN Uppers : Uppers[i] = c]
    ELSE c

\* String.prototype.toLowerCase
ToLowerCase(str) == [i \in DOMAIN str |-> LowerChar(str[i])]

\* String.prototype.trim
Trim(str) == StripRight(StripLeft(str))

KeyAvailable == <<"a", "v", "a", "i", "l", "a", "b", "l", "e">>
KeyCharging == <<"c", "h", "a", "r", "g", "i", "n", "g">>
KeyPreparing == <<"p", "r", "e", "p", "a", "r", "i", "n", "g">>
KeySuspendedEV == <<"s", "u", "s", "p", "e", "n", "d", "e", "d", "e", "v">>
KeyUnknown == <<"u", "n", "k", "n", "o", "w", "n">>

\* the entries of the object literal statusIcons
StatusIconsOwn(key) ==
  CASE key = KeyAvailable   -> [icon |-> "CheckCircleIcon", color |-> "#22c55e", variant |-> "pulse"]
    [] key = KeyCharging    -> [icon |-> "BoltIcon", color |-> "#3b82f6", variant |-> "none"]
    [] key = KeyPreparing   -> [icon |-> "ClockIcon", color |-> "#ec4899", variant |-> "none"]
    [] key = KeySuspendedEV -> [icon |-> "ExclamationTriangleIcon", color |-> "#ef4444", variant |-> "none"]
    [] key = KeyUnknown     -> [icon |-> "ExclamationCircleIcon", color |-> "#f59e0b", variant |-> "none"]

OwnKeys == {KeyAvailable, KeyCharging, KeyPreparing, KeySuspendedEV, KeyUnknown}

\* the lower-case property names statusIcons inherits from Object.prototype;
\* their values are objects without icon, color or variant
InheritedKeys == {<<"c", "o", "n", "s", "t", "r", "u", "c", "t", "o", "r">>, <<"_", "_", "p", "r", "o", "t", "o", "_", "_">>}
InheritedValue == [icon |-> "undefined", color |-> "undefined", variant |-> "undefined"]

\* statusIcons[status] || statusIcons['unknown'], after
\* charger.status.toLowerCase().trim()
IconInfo(statusText) ==
  LET status == Trim(ToLowerCase(statusText)) IN
    IF status \in OwnKeys THEN StatusIconsOwn(status)
    ELSE IF status \in InheritedKeys THEN InheritedValue
    ELSE StatusIconsOwn(KeyUnknown)

\* chargers.map(charger => ... iconInfo ...)
RenderIcons(cs) == [i \in DOMAIN cs |-> IconInfo(cs[i].status)]

\* the status texts of the records the producer reports
StatusCharging == <<"C", "h", "a", "r", "g", "i", "n", "g">>
StatusAvailable == <<" ", "A", "V", "A", "I", "L", "A", "B", "L", "E", " ">>
StatusFaulted == <<"F", "a", "u", "l", "t", "e", "d">>
StatusConstructor == <<"c", "o", "n", "s", "t", "r", "u", "c", "t", "o", "r">>

\* the fields of a decoded document v
EventOf(v) ==
  IF v.body \in {"1", "2", "3", "4", "N"} THEN "charger_status_update"
  ELSE IF v.body = "O" THEN "other"
  ELSE "undefined"

HasData(v) == v.body \in {"1", "2", "3", "4"}

DataOf(v) ==
  CASE v.body = "1" -> [ip |-> "10.0.0.1", status |-> StatusCharging]
    [] v.body = "2" -> [ip |-> "10.0.0.2", status |-> StatusAvailable]
    [] v.body = "3" -> [ip |-> "10.0.0.1", status |-> StatusFaulted]
    [] v.body = "4" -> [ip |-> "10.0.0.2", status |-> StatusConstructor]

DevicesOf(v) == IF v.body = "S" THEN <<DataOf([ok |-> TRUE, body |-> "1"])>> ELSE <<>>

\* prevChargers.findIndex(c => c.ip === ip); 0 stands for -1
FindIndex(cs, ip) ==
  IF \E i \in DOMAIN cs : cs[i].ip = ip
    THEN CHOOSE i \in DOMAIN cs : cs[i].ip = ip /\ \A j \in 1..(i - 1) : cs[j].ip # ip
    ELSE 0

\* variant: the updater appends without looking the ip up
Upsert_AlwaysAppend(cs, d) == Append(cs, d)

\* variant: the updater drops the old entry and appends the new record
Upsert_MoveToEnd(cs, d) ==
  Append(SelectSeq(cs, LAMBDA c : c.ip # d.ip), d)

\* the updater passed to setChargers in handleChargerData
Upsert(cs, d) ==
  LET existingIndex == FindIndex(cs, d.ip) IN
    IF existingIndex # 0 THEN [cs EXCEPT ![existingIndex] = d] ELSE Append(cs, d)

\* handleChargerData(message): the new chargers, whether the updater ran, and
\* whether a TypeError was thrown (message is null, or message.data is
\* undefined when the updater reads message.data.ip)
HandleChargerData(cs, m) ==
  IF m.body = "null" THEN [chargers |-> cs, upsert |-> FALSE, threw |-> TRUE]
  ELSE IF EventOf(m) # "charger_status_update"
    THEN [chargers |-> cs, upsert |-> FALSE, threw |-> FALSE]
  ELSE IF ~HasData(m) THEN [chargers |-> cs, upsert |-> FALSE, threw |-> TRUE]
  ELSE [chargers |-> Upsert(cs, DataOf(m)), upsert |-> TRUE, threw |-> FALSE]

NoError == [tag |-> "null", code |-> 0, text |-> <<>>]

\* err.toString() of the rejection r
ErrorOf(r) == [tag |-> r.tag, code |-> r.code, text |-> r.text]

\* data.message of a {success: false} document
FailureMessage == [tag |-> "message", code |-> 0, text |-> <<"m">>]

\* variant: a failed call also empties the list
FetchDataEffect_ClearOnFailure(cs, err, r) ==
  IF r.kind = "rejected" THEN [chargers |-> <<>>, error |-> ErrorOf(r), set |-> TRUE]
  ELSE IF r.body = "F" THEN [chargers |-> <<>>, error |-> FailureMessage, set |-> TRUE]
  ELSE [chargers |-> DevicesOf(r), error |-> NoError, set |-> TRUE]

\* fetchData, once window.api.getChargerData() has settled with r: the new
\* chargers and error.  data.success of null throws inside the try.
FetchDataEffect(cs, err, r) ==
  IF r.kind = "rejected" THEN [chargers |-> cs, error |-> ErrorOf(r), set |-> FALSE]
  ELSE IF r.body = "null"
    THEN [chargers |-> cs, error |-> [tag |-> "TypeError", code |-> 0, text |-> <<>>],
          set |-> FALSE]
  ELSE IF r.body = "F"
    THEN [chargers |-> cs, error |-> FailureMessage, set |-> FALSE]
  ELSE [chargers |-> DevicesOf(r), error |-> NoError, set |-> TRUE]

\* the page as loaded
PageInit ==
  /\ chargers = <<>>
  /\ error = NoError
  /\ icons = <<>>
  /\ pageError = FALSE
  /\ seen = {}
  /\ again = {}
  /\ replaced = FALSE

Init ==
  /\ host = "loading"
  /\ platform \in {"darwin", "other"}
  /\ mainWindow = FALSE
  /\ pythonProcess = 0
  /\ procs = <<>>
  /\ uncaught = FALSE
  /\ nWrites = 0
  /\ PageInit

\* ---- main.js handlers ----------------------------------------------------------
\* ipcMain.on('start-monitoring'): the new value of <<pythonProcess, procs,
\* uncaught>>.  A child that cannot be started emits 'error'; neither handler
\* registers an 'error' listener.
StartEffect(pp, ps, ok) ==
  IF pp # 0
    THEN [pp |-> pp, ps |-> ps, err |-> FALSE]
    ELSE [pp |-> Len(ps) + 1, ps |-> Append(ps, NewProc("monitor", ok)), err |-> ~ok]

\* app.whenReady(): createWindow(), then ipcMain.emit('start-monitoring')
AppReady(ok) ==
  /\ host = "loading"
  /\ LET e == StartEffect(pythonProcess, procs, ok) IN
       /\ pythonProcess' = e.pp
       /\ procs' = e.ps
       /\ uncaught' = (uncaught \/ e.err)
  /\ host' = "running"
  /\ mainWindow' = TRUE
  /\ UNCHANGED <<platform, nWrites>>
  /\ UNCHANGED page

StartMonitoring(ok) ==
  /\ host = "running"
  /\ pythonProcess # 0 \/ Len(procs) < MaxProcs
  /\ LET e == StartEffect(pythonProcess, procs, ok) IN
       /\ pythonProcess' = e.pp
       /\ procs' = e.ps
       /\ uncaught' = (uncaught \/ e.err)
  /\ UNCHANGED <<host, platform, mainWindow, nWrites>>
  /\ UNCHANGED page

\* ipcMain.handle('get-charger-data')
GetEffect(pp, ps, ok) ==
  [pp |-> Len(ps) + 1, ps |-> Append(ps, NewProc("oneshot", ok)), err |-> ~ok]

GetChargerData(ok) ==
  /\ host = "running"
  /\ Len(procs) < MaxProcs
  /\ LET e == GetEffect(pythonProcess, procs, ok) IN
       /\ pythonProcess' = e.pp
       /\ procs' = e.ps
       /\ uncaught' = (uncaught \/ e.err)
  /\ UNCHANGED <<host, platform, mainWindow, nWrites>>
  /\ UNCHANGED page

\* pythonProcess.kill(): a signal is sent only to a running child
Kill(ps, p) ==
  IF p # 0 /\ ps[p].status = "alive" THEN [ps EXCEPT ![p].killed = TRUE] ELSE ps

\* mainWindow.on('closed'), then app.on('window-all-closed')
WindowClosed ==
  /\ host = "running"
  /\ mainWindow
  /\ mainWindow' = FALSE
  /\ procs' = Kill(procs, pythonProcess)
  /\ pythonProcess' = 0
  /\ host' = IF platform # "darwin" THEN "quit" ELSE host
  /\ UNCHANGED <<platform, uncaught, nWrites>>
  /\ UNCHANGED page

\* app.on('activate'): a new window when none is open; it loads the page anew
Activate ==
  /\ host = "running"
  /\ ~mainWindow
  /\ mainWindow' = TRUE
  /\ chargers' = <<>>
  /\ error' = NoError
  /\ icons' = <<>>
  /\ pageError' = FALSE
  /\ seen' = {}
  /\ again' = {}
  /\ replaced' = FALSE
  /\ UNCHANGED <<host, platform, pythonProcess, procs, uncaught, nWrites>>

\* ---- the children ------------------------------------------------------------
LinesOf(mode) == IF mode = "monitor" THEN MonitorLines ELSE OneShotLines

\* the child prints one line on stdout
ProcWrite(p, line) ==
  /\ procs[p].status = "alive"
  /\ nWrites < MaxWrites
  /\ line \in LinesOf(procs[p].mode)
  /\ procs' = [procs EXCEPT ![p].pipe = @ \o line, ![p].written = Append(@, line)]
  /\ nWrites' = nWrites + 1
  /\ UNCHANGED <<host, platform, mainWindow, pythonProcess, uncaught>>
  /\ UNCHANGED page

\* ---- stream handlers -----------------------------------------------------------
\* variant: one data buffer shared by every snapshot call
OneShotOnData_Shared(ps, p, chunk) ==
  [q \in DOMAIN ps |->
     IF ps[q].mode = "oneshot" THEN [ps[q] EXCEPT !.data = @ \o chunk] ELSE ps[q]]

\* one-shot: pythonProcess.stdout.on('data', chunk => data += chunk)
OneShotOnData(ps, p, chunk) == [ps EXCEPT ![p].data = @ \o chunk]

\* one-shot: pythonProcess.stderr.on('data', chunk => errorData += chunk)
OneShotOnStderr(ps, p, chunk) == [ps EXCEPT ![p].errorData = @ \o chunk]

\* monitor: pythonProcess.stdout.on('data'): parse the chunk, send it to the
\* window; preload.js hands the message to the page's callback.  A chunk that
\* does not parse, or a null mainWindow, ends in the catch.
MonitorOnData(ps, p, chunk, win) ==
  LET m == JSONParse(chunk) IN
    IF m.ok /\ win
      THEN [ps EXCEPT ![p].parses = @ + 1, ![p].recv = Append(@, m)]
      ELSE [ps EXCEPT ![p].parses = @ + 1, ![p].diag = @ + 1]

\* monitor: pythonProcess.stderr.on('data'): console.error
MonitorOnStderr(ps, p, chunk) == [ps EXCEPT ![p].diag = @ + 1]

\* the page's callback runs handleChargerData(m) and the list is rendered
PageOnMessage(m) ==
  LET h == HandleChargerData(chargers, m) IN
    /\ chargers' = h.chargers
    /\ icons' = RenderIcons(h.chargers)
    /\ pageError' = (pageError \/ h.threw)
    /\ seen' = IF h.upsert THEN seen \cup {DataOf(m).ip} ELSE seen
    /\ again' = IF h.upsert /\ DataOf(m).ip \in seen
                THEN again \cup {DataOf(m).ip} ELSE again
    /\ UNCHANGED <<error, replaced>>

\* a 'data' event on stdout carrying the first k characters in the pipe; a
\* message the monitor handler sends reaches the page's callback
StdoutData(p, k) ==
  /\ host = "running"
  /\ procs[p].status = "alive"
  /\ k \in 1..Len(procs[p].pipe)
  /\ LET chunk == SubSeq(procs[p].pipe, 1, k)
         rest  == SubSeq(procs[p].pipe, k + 1, Len(procs[p].pipe))
         ps    == [procs EXCEPT ![p].pipe = rest] IN
       IF procs[p].mode = "monitor"
         THEN /\ procs' = MonitorOnData(ps, p, chunk, mainWindow)
              /\ IF JSONParse(chunk).ok /\ mainWindow
                   THEN PageOnMessage(JSONParse(chunk))
                   ELSE UNCHANGED page
         ELSE /\ procs' = OneShotOnData(ps, p, chunk)
              /\ UNCHANGED page
  /\ UNCHANGED <<host, platform, mainWindow, pythonProcess, uncaught, nWrites>>

\* the child writes on stderr and the 'data' event is handled
StderrData(p) ==
  /\ host = "running"
  /\ procs[p].status = "alive"
  /\ nWrites < MaxWrites
  /\ LET ps == [procs EXCEPT ![p].errWritten = @ \o StderrText] IN
       procs' = IF procs[p].mode = "monitor"
                  THEN MonitorOnStderr(ps, p, StderrText)
                  ELSE OneShotOnStderr(ps, p, StderrText)
  /\ nWrites' = nWrites + 1
  /\ UNCHANGED <<host, platform, mainWindow, pythonProcess, uncaught>>
  /\ UNCHANGED page

\* variant: stdout is decoded before the exit code is looked at
OneShotOutcome_ParseFirst(code, data, errorData) ==
  LET v == JSONParse(data) IN
    IF v.ok THEN [outcome |-> Resolved(v), parses |-> 1]
    ELSE IF code # 0 THEN [outcome |-> ExitFailure(code, errorData), parses |-> 1]
    ELSE [outcome |-> ParseFailure, parses |-> 1]

\* variant: output that does not decode is answered with an empty success
OneShotOutcome_EmptyOnError(code, data, errorData) ==
  IF code # 0
    THEN [outcome |-> ExitFailure(code, errorData), parses |-> 0]
    ELSE LET v == JSONParse(data) IN
           IF v.ok THEN [outcome |-> Resolved(v), parses |-> 1]
                   ELSE [outcome |-> Resolved([ok |-> TRUE, body |-> "S"]), parses |-> 1]

\* one-shot: pythonProcess.on('close', code => ...): the outcome of the call
\* and the number of JSON.parse calls it makes
OneShotOutcome(code, data, errorData) ==
  IF code # 0
    THEN [outcome |-> ExitFailure(code, errorData), parses |-> 0]
    ELSE LET v == JSONParse(data) IN
           IF v.ok THEN [outcome |-> Resolved(v), parses |-> 1]
                   ELSE [outcome |-> ParseFailure, parses |-> 1]

OneShotOnClose(ps, p, code) ==
  LET r == OneShotOutcome(code, ps[p].data, ps[p].errorData) IN
    [ps EXCEPT ![p].outcome = r.outcome, ![p].parses = @ + r.parses]

\* monitor: pythonProcess.on('close', code => { ...; pythonProcess = null })
MonitorOnClose(pp, p) == 0

\* 'close': the child has ended (by itself with an exit code, or by the signal
\* it was sent) and its stdio streams are drained
ProcClose(p, code) ==
  /\ host = "running"
  /\ procs[p].status = "alive"
  /\ procs[p].pipe = <<>>
  /\ code \in ExitCodes \/ (procs[p].killed /\ code = NullCode)
  /\ LET ps == [procs EXCEPT ![p].status = "closed", ![p].code = code] IN
       IF procs[p].mode = "monitor"
         THEN /\ procs' = ps
              /\ pythonProcess' = MonitorOnClose(pythonProcess, p)
         ELSE /\ procs' = OneShotOnClose(ps, p, code)
              /\ pythonProcess' = pythonProcess
  /\ UNCHANGED <<host, platform, mainWindow, uncaught, nWrites>>
  /\ UNCHANGED page

\* ---- the page's handlers ---------------------------------------------------
\* the documents a stream message can decode to
Messages ==
  {[ok |-> TRUE, body |-> b] : b \in {"1", "2", "3", "4", "O", "N", "F"} \cup Atoms}

\* the ways a snapshot call can settle
Settlements ==
  {Resolved([ok |-> TRUE, body |-> b]) : b \in {"S", "F", "null"}}
    \cup {ExitFailure(1, StderrText), ParseFailure}

\* window.api.onChargerData(handleChargerData): a message arrives
OnChargerData(m) ==
  /\ host = "running"
  /\ mainWindow
  /\ PageOnMessage(m)
  /\ UNCHANGED <<host, platform, mainWindow, pythonProcess, procs, uncaught, nWrites>>

\* fetchData continues after await window.api.getChargerData() settled with r
FetchDataDone(r) ==
  /\ host = "running"
  /\ mainWindow
  /\ LET f == FetchDataEffect(chargers, error, r) IN
       /\ chargers' = f.chargers
       /\ error' = f.error
       /\ icons' = RenderIcons(f.chargers)
       /\ replaced' = (replaced \/ f.set)
  /\ UNCHANGED <<pageError, seen, again>>
  /\ UNCHANGED <<host, platform, mainWindow, pythonProcess, procs, uncaught, nWrites>>

\* ---- specifications ---------------------------------------------------------
\* the lifecycle of the children: every handler that spawns, signals or
\* forgets a child, and the children's exits
LifeNext ==
  \/ \E ok \in BOOLEAN : AppReady(ok)
  \/ \E ok \in BOOLEAN : StartMonitoring(ok)
  \/ \E ok \in BOOLEAN : GetChargerData(ok)
  \/ WindowClosed
  \/ Activate
  \/ \E p \in Procs : \E code \in ExitCodes \cup {NullCode} : ProcClose(p, code)

SpecLife == Init /\ [][LifeNext]_vars

\* the event loop runs every handler whose event is due
FairLife == SpecLife /\ WF_vars(LifeNext)

\* the snapshot calls with their output: the executable starts, and the
\* monitoring child stays silent and running
OneShotNext ==
  \/ AppReady(TRUE)
  \/ GetChargerData(TRUE)
  \/ WindowClosed
  \/ \E p \in Procs : \E line \in OneShotLines :
        procs[p].mode = "oneshot" /\ ProcWrite(p, line)
  \/ \E p \in Procs : \E k \in 1..(4 * MaxWrites) : StdoutData(p, k)
  \/ \E p \in Procs : procs[p].mode = "oneshot" /\ StderrData(p)
  \/ \E p \in Procs : \E code \in ExitCodes \cup {NullCode} :
        procs[p].mode = "oneshot" /\ ProcClose(p, code)

\* On other platforms the host quits at the first window close, so every
\* behaviour there is a prefix of a macOS one.
InitDarwin == Init /\ platform = "darwin"

SpecOneShot == InitDarwin /\ [][OneShotNext]_vars

\* the monitoring stream with its output: the executable starts, the window
\* stays open and no snapshot call is made
StreamNext ==
  \/ AppReady(TRUE)
  \/ StartMonitoring(TRUE)
  \/ \E p \in Procs : \E line \in MonitorLines : ProcWrite(p, line)
  \/ \E p \in Procs : \E k \in 1..(4 * MaxWrites) : StdoutData(p, k)
  \/ \E p \in Procs : StderrData(p)
  \/ \E p \in Procs : \E code \in ExitCodes \cup {NullCode} : ProcClose(p, code)

SpecStream == InitDarwin /\ [][StreamNext]_vars

\* the page with the messages and the settled calls it is handed
PageNext ==
  \/ AppReady(TRUE)
  \/ \E m \in Messages : OnChargerData(m)
  \/ \E r \in Settlements : FetchDataDone(r)

SpecPage == InitDarwin /\ [][PageNext]_vars

\* every handler and every child event
Next ==
  \/ LifeNext
  \/ \E p \in Procs : \E line \in MonitorLines \cup OneShotLines : ProcWrite(p, line)
  \/ \E p \in Procs : \E k \in 1..(4 * MaxWrites) : StdoutData(p, k)
  \/ \E p \in Procs : StderrData(p)
  \/ \E m \in Messages : OnChargerData(m)
  \/ \E r \in Settlements : FetchDataDone(r)

Spec == Init /\ [][Next]_vars

TypeOK ==
  /\ host \in {"loading", "running", "quit"}
  /\ pythonProcess \in 0..Len(procs)
  /\ Len(procs) <= MaxProcs

\* ---- the claims ------------------------------------------------------------------
Monitors == {p \in Procs : procs[p].mode = "monitor"}
Calls == {p \in Procs : procs[p].mode = "oneshot"}
Alive(p) == procs[p].status = "alive"
Closed(p) == procs[p].status = "closed"
Settled(p) == procs[p].outcome.kind # "pending"

\* C1: at most one monitoring child that was spawned has not yet exited.
C1_SingletonMonitor == Cardinality({p \in Monitors : Alive(p)}) <= 1

\* C2: a get-charger-data call never changes the streaming supervisor's
\* active-session marker.
C2_SnapshotKeepsMarker ==
  [][(\E ok \in BOOLEAN : GetChargerData(ok)) => pythonProcess' = pythonProcess]_vars

\* C3: whenever a monitoring child has exited and none is alive (every
\* monitoring child so far was started and has exited), the next
\* start-monitoring spawns a new monitoring child.
C3_RespawnAfterExit ==
  (Monitors # {} /\ \A p \in Monitors : Closed(p))
    => LET e == StartEffect(pythonProcess, procs, TRUE) IN
         /\ Len(e.ps) = Len(procs) + 1
         /\ e.ps[Len(e.ps)].mode = "monitor"

\* C4: after the window-closed handler has run, every child that has not
\* exited has been sent a termination signal.
C4_ShutdownSignalsAll ==
  [][WindowClosed => \A p \in Procs : procs'[p].status = "alive" => procs'[p].killed]_vars

\* C5: every snapshot call that has settled carries the result of the stdout,
\* the stderr and the exit code of its own child and of nothing else, however
\* the calls overlap.
C5_OwnResult ==
  \A p \in Calls :
    Settled(p) =>
      /\ Closed(p)
      /\ procs[p].outcome =
           OneShotOutcome(procs[p].code, Concat(procs[p].written), procs[p].errWritten).outcome

\* C5 witness: a later call has settled with output of its own while an earlier
\* call, still running, has read part of its output.
C5_Witness ==
  \E p, q \in Calls :
    /\ p < q
    /\ Alive(p) /\ procs[p].data # <<>> /\ procs[p].pipe # <<>>
    /\ Settled(q) /\ procs[q].written # <<>> /\ procs[q].written # procs[p].written

\* C6: a failed snapshot call (non-zero exit or undecodable stdout) completes
\* normally with a {success: false, message} result; it is never rejected.
C6_FailureReturned ==
  \A p \in Calls :
    (Closed(p) /\ (procs[p].code # 0 \/ ~JSONParse(Concat(procs[p].written)).ok))
      => (procs[p].outcome.kind = "resolved" /\ procs[p].outcome.body = "F")

\* C7: a snapshot child that exits with a non-zero code makes the call fail
\* with a message carrying that code and the whole stderr text, whatever its
\* stdout, and no decode of stdout is attempted.
C7_ExitCodePrecedence ==
  \A p \in Calls :
    (Closed(p) /\ procs[p].code # 0) =>
      /\ procs[p].outcome.kind = "rejected"
      /\ procs[p].outcome.tag = "exit"
      /\ procs[p].outcome.code = procs[p].code
      /\ procs[p].outcome.text = procs[p].errWritten
      /\ procs[p].parses = 0

\* C7 witness: a child that printed a valid success document and wrote on
\* stderr has exited with code 1.
C7_Witness ==
  \E p \in Calls :
    /\ Closed(p) /\ procs[p].code = 1
    /\ JSONParse(Concat(procs[p].written)).ok
    /\ procs[p].errWritten # <<>>

\* C8: a snapshot child that exits with code 0 and whose whole stdout is not
\* one JSON document makes the call fail with the decode error; the call is
\* neither resolved nor left pending.
C8_MalformedIsFailure ==
  \A p \in Calls :
    (Closed(p) /\ procs[p].code = 0 /\ ~JSONParse(Concat(procs[p].written)).ok) =>
      /\ procs[p].outcome.kind = "rejected"
      /\ procs[p].outcome.tag = "parse"
      /\ procs[p].outcome.text = <<"SyntaxError">>

\* C8 witness: one child has exited with code 0 and empty stdout, another with
\* code 0 and stdout that is not JSON.
C8_Witness ==
  \E p, q \in Calls :
    /\ Closed(p) /\ procs[p].code = 0 /\ procs[p].written = <<>>
    /\ Closed(q) /\ procs[q].code = 0 /\ procs[q].written # <<>>
    /\ ~JSONParse(Concat(procs[q].written)).ok

\* C9: a snapshot call whose child could not be started eventually settles
\* with a failure.
C9_SpawnFailureSurfaced ==
  \A p \in 1..MaxProcs :
    [](((p \in Calls) /\ procs[p].status = "failed")
         => <>((p \in Calls) /\ procs[p].outcome.kind = "rejected"))

RECURSIVE WellFormed(_)
WellFormed(lines) ==
  IF lines = <<>> THEN <<>>
  ELSE LET m == JSONParse(Head(lines)) IN
         (IF m.ok THEN <<m>> ELSE <<>>) \o WellFormed(Tail(lines))

\* C10: the events delivered to the subscriber are, in order, the well-formed
\* records the monitoring child has written (once all it wrote has been read).
C10_FifoDelivery ==
  \A p \in Monitors :
    procs[p].pipe = <<>> => procs[p].recv = WellFormed(procs[p].written)

\* ---- the registry of the page ---------------------------------------------
Keys(cs) == {cs[i].ip : i \in DOMAIN cs}

\* C11: as long as only charger_status_update events have been applied to the
\* empty list, no two entries share an ip and the list has as many entries as
\* there are distinct ips among the events applied.
C11_KeyUniqueness ==
  ~replaced =>
    /\ \A i, j \in DOMAIN chargers : chargers[i].ip = chargers[j].ip => i = j
    /\ Len(chargers) = Cardinality(seen)
    /\ Keys(chargers) = seen

\* two ips are in the list and both were reported more than once
C11_Witness ==
  /\ ~replaced
  /\ Cardinality(seen) = 2
  /\ again = seen
  /\ Len(chargers) = 2

\* the status updates that carry a record
Updates == {m \in Messages : EventOf(m) = "charger_status_update" /\ HasData(m)}

\* C12: an update for an ip already in the list puts the new record at the
\* index that ip has, every other entry keeps its record and index and the
\* length stays; an update for an absent ip appends the record and every
\* existing entry keeps its record and index.
C12_LastWriteWinsInPlace ==
  [][\A m \in Updates : OnChargerData(m) =>
       LET d == DataOf(m) IN
         IF d.ip \in Keys(chargers)
           THEN /\ Len(chargers') = Len(chargers)
                /\ \A j \in DOMAIN chargers :
                     chargers'[j] = IF chargers[j].ip = d.ip THEN d ELSE chargers[j]
           ELSE /\ Len(chargers') = Len(chargers) + 1
                /\ chargers'[Len(chargers) + 1] = d
                /\ \A j \in DOMAIN chargers : chargers'[j] = chargers[j]]_vars

\* the first of two entries was reported again and is still the first
C12_Witness ==
  /\ ~replaced
  /\ Len(chargers) = 2
  /\ chargers[1].ip \in again
  /\ chargers[2].ip \notin again

\* C13: handling the result of a snapshot call, success or failure, leaves
\* the list of latest device records built from the stream events as it was.
C13_SnapshotLeavesRegistry ==
  [][\A r \in Settlements : FetchDataDone(r) => chargers' = chargers]_vars

\* C14: an ip that has an entry in the list has an entry in every later
\* state: no step removes a key.
C14_KeysNeverShrink ==
  [][Keys(chargers) \subseteq Keys(chargers')]_vars

\* C15: the entry rendered for a charger is the one of available, charging,
\* preparing or suspendedev when its status, lower-cased and trimmed, is that
\* token, and the unknown entry for every other status.
C15_UnknownFallback ==
  \A i \in DOMAIN chargers :
    LET s == Trim(ToLowerCase(chargers[i].status)) IN
      icons[i] = IF s \in {KeyAvailable, KeyCharging, KeyPreparing, KeySuspendedEV}
                   THEN StatusIconsOwn(s)
                   ELSE StatusIconsOwn(KeyUnknown)

\* ---- the monitoring stream ------------------------------------------------
\* C16: however the well-formed record lines a monitoring child wrote are cut
\* into chunks, one decode is attempted per line and the events forwarded are
\* the records written, one per line.
C16_FramingIgnoresChunking ==
  \A p \in Monitors :
    (/\ procs[p].pipe = <<>>
     /\ \A i \in DOMAIN procs[p].written : JSONParse(procs[p].written[i]).ok)
      => /\ procs[p].parses = Len(procs[p].written)
         /\ Len(procs[p].recv) = Len(procs[p].written)
         /\ \A i \in DOMAIN procs[p].written :
              procs[p].recv[i] = JSONParse(procs[p].written[i])

\* C17: when the first line a monitoring child wrote does not decode, each
\* malformed line gives one diagnostic and no event, and the well-formed lines
\* are forwarded; a malformed line followed by one valid status update gives
\* one diagnostic, one event and the entry of that update in the list.
C17_MalformedLineIsolated ==
  \A p \in Monitors :
    (/\ procs[p].pipe = <<>>
     /\ procs[p].errWritten = <<>>
     /\ procs[p].written # <<>>
     /\ ~JSONParse(procs[p].written[1]).ok)
      => /\ procs[p].diag = Len(procs[p].written) - Len(WellFormed(procs[p].written))
         /\ Len(procs[p].recv) = Len(WellFormed(procs[p].written))
         /\ \A i \in DOMAIN procs[p].written :
              (i > 1 /\ JSONParse(procs[p].written[i]).ok)
                => /\ procs[p].diag = 1
                   /\ procs[p].recv = <<JSONParse(procs[p].written[i])>>
                   /\ DataOf(JSONParse(procs[p].written[i])).ip \in Keys(chargers)

\* C18: unless a snapshot child could not be started, the host has no
\* uncaught exception: no failure of the monitoring path raises one.
C18_StreamNeverCrashesHost ==
  (\A p \in Calls : procs[p].status # "failed") => ~uncaught

\* C19: a decoded message that is not a charger_status_update carrying a
\* record leaves the list unchanged, and the handler raises no error.
C19_OtherShapesIgnored ==
  [][\A m \in Messages \ Updates :
       OnChargerData(m) => (chargers' = chargers /\ pageError' = pageError)]_vars

\* ---- the snapshot result on the page ---------------------------------------
Failed(r) == r.kind = "rejected" \/ (r.kind = "resolved" /\ r.body = "F")
Succeeded(r) == r.kind = "resolved" /\ r.body = "S"

\* C20: when a snapshot call ends in failure (a {success: false} document or
\* a rejection) the list shown is what it was and the error is the failure's
\* message; when it succeeds the error is cleared.
C20_FailureKeepsList ==
  [][\A r \in Settlements : FetchDataDone(r) =>
       /\ Failed(r) =>
            /\ chargers' = chargers
            /\ icons' = icons
            /\ error' = IF r.kind = "rejected" THEN ErrorOf(r) ELSE FailureMessage
            /\ error' # NoError
       /\ Succeeded(r) => error' = NoError]_vars

\* a failure has been handled while chargers were listed
C20_Witness ==
  /\ chargers # <<>>
  /\ error # NoError
  /\ error.tag # "TypeError"

====
